---- MODULE Spec2Model ----
(***************************************************************************)
(* The tuning-method comparison pipeline of                                *)
(* "Model Tuning/random_search_decision_tree.ipynb": load and split the    *)
(* data, fit a default decision tree, run RandomizedSearchCV and           *)
(* GridSearchCV (each a cross-validated search whose (candidate, fold)     *)
(* fits run on parallel workers), score the three models on the test       *)
(* partition, build and print the comparison table, plot it.               *)
(***************************************************************************)
EXTENDS Integers, Sequences, FiniteSets, TLC

VARIABLES
    pc,             \* the statement the notebook executes next
    env,            \* the world of the run: data content and the stream of seed 42
    run,            \* 1 for the first execution of the notebook, 2 for a rerun
    now,            \* the wall clock, as time.time() reads it
    X_train,        \* rows of the training partition, in split order
    X_test,         \* rows of the test partition, in split order
    default_tree,   \* the baseline estimator
    default_accuracy,
    random_search,  \* the RandomizedSearchCV object
    random_time,
    random_accuracy,
    grid_search,    \* the GridSearchCV object
    grid_time,
    grid_accuracy,
    start_time,
    job,            \* the running fit of a search: candidates, dispatch, results
    results,        \* the comparison table (a sequence of rows)
    stdout,         \* what has been printed
    figure,         \* the state of the plot
    hist,           \* history: which rows fits and predictions read, step order
    previous        \* the table of the previous execution (rerun only)

vars == <<pc, env, run, now, X_train, X_test, default_tree, default_accuracy,
          random_search, random_time, random_accuracy, grid_search, grid_time,
          grid_accuracy, start_time, job, results, stdout, figure, hist, previous>>

(***************************************************************************)
(* Bounds of the model.                                                    *)
(***************************************************************************)
\* rows of the dataset (569 in the reference corpus)
NRows == 10
\* worlds: each fixes the labels a fitted tree predicts and the stream of the seed
NumEnvs == 2
\* workers joblib runs at once for n_jobs=-1 (the number of processing units)
NJobs == 2
\* how far dispatch may run ahead of the oldest unfinished task
MaxLag == 1
\* the longest wall-clock duration one timed fit can take, in clock ticks
MaxDur == 1

(***************************************************************************)
(* Program constants.                                                      *)
(***************************************************************************)
n_iter == 50
cv == 5
\* test_size=0.2 as the fraction TestSizeNum / TestSizeDen
TestSizeNum == 1
TestSizeDen == 5

None == [none |-> TRUE]

\* a time not measured yet: the name is not bound before its cell has run
NoTime == -1

Range(s) == {s[i] : i \in 1..Len(s)}

\* a range that starts one too low: np.arange(a - 1, b - 1)
ArangeFromBelow(a, b) == [i \in 1..(b - a) |-> a + i - 2]

\* np.arange(a, b): a, a+1, ..., b-1
Arange(a, b) == [i \in 1..(b - a) |-> a + i - 1]

param_dist ==
    [max_depth         |-> Arange(1, 20),
     min_samples_split |-> Arange(2, 20),
     min_samples_leaf  |-> Arange(1, 20)]

param_grid ==
    [max_depth         |-> <<3, 5, 10, 15>>,
     min_samples_split |-> <<2, 5, 10>>,
     min_samples_leaf  |-> <<1, 5, 10>>]

\* DecisionTreeClassifier(random_state=42): max_depth=None (0 here),
\* min_samples_split=2, min_samples_leaf=1
DefaultParams == [max_depth |-> 0, min_samples_split |-> 2, min_samples_leaf |-> 1]

(***************************************************************************)
(* ParameterGrid: the keys are sorted (max_depth, min_samples_leaf,        *)
(* min_samples_split) and the last key varies fastest.                     *)
(***************************************************************************)
GridSize(g) == Len(g.max_depth) * Len(g.min_samples_leaf) * Len(g.min_samples_split)

\* ParameterGrid.__getitem__(ind), ind counted from 0
GridGet(g, ind) ==
    LET nSplit == Len(g.min_samples_split)
        nLeaf  == Len(g.min_samples_leaf)
        nDepth == Len(g.max_depth)
    IN  [min_samples_split |-> g.min_samples_split[(ind % nSplit) + 1],
         min_samples_leaf  |-> g.min_samples_leaf[((ind \div nSplit) % nLeaf) + 1],
         max_depth         |-> g.max_depth[((ind \div (nSplit * nLeaf)) % nDepth) + 1]]

\* a grid listing that stops one combination short
ParameterGridShort(g) == [i \in 1..(GridSize(g) - 1) |-> GridGet(g, i - 1)]

\* list(ParameterGrid(g)): every combination, in iteration order
ParameterGrid(g) == [i \in 1..GridSize(g) |-> GridGet(g, i - 1)]

(***************************************************************************)
(* ParameterSampler: every entry of param_dist is a list (an array has no  *)
(* rvs), so n_iter grid indices are drawn WITHOUT replacement by the       *)
(* generator seeded with random_state=42. The stream of the generator is   *)
(* opaque: world e fixes it as a stride walk over the grid indices, which  *)
(* never repeats an index.                                                 *)
(***************************************************************************)
Stride(e) == 606 * e + 125

\* a draw with replacement from a short stream: indices repeat
SampleWithReplacement(population, n, e) ==
    [i \in 1..n |-> ((Stride(e) * (i - 1) + 7 * e) % 47) % population]

SampleWithoutReplacement(population, n, e) ==
    [i \in 1..n |-> (Stride(e) * (i - 1) + 7 * e) % population]

ParameterSampler(g, n, e) ==
    LET size  == GridSize(g)
        count == IF size < n THEN size ELSE n
        idx   == SampleWithoutReplacement(size, count, e)
    IN  [i \in 1..count |-> GridGet(g, idx[i])]

(***************************************************************************)
(* The dataset and train_test_split(X, y, test_size=0.2, random_state=42). *)
(***************************************************************************)
Rows == 1..NRows

\* ceil(test_size * n_samples)
NTest == (NRows * TestSizeNum + TestSizeDen - 1) \div TestSizeDen
NTrain == NRows - NTest

\* the permutation the generator seeded with 42 yields in world e
Permutation(e) == [i \in 1..NRows |-> ((i + e) % NRows) + 1]

\* a split without random_state, shuffled from the clock
train_test_split_unseeded(e) ==
    LET p == Permutation(e + now)
    IN  [test  |-> [i \in 1..NTest |-> p[i]],
         train |-> [i \in 1..NTrain |-> p[NTest + i]]]

train_test_split(e) ==
    LET p == Permutation(e)
    IN  [test  |-> [i \in 1..NTest |-> p[i]],
         train |-> [i \in 1..NTrain |-> p[NTest + i]]]

(***************************************************************************)
(* cv=5: the folds partition the positions of the training partition;      *)
(* the first n % cv folds hold one row more.                               *)
(***************************************************************************)
FoldSize(n, f) == (n \div cv) + (IF f <= n % cv THEN 1 ELSE 0)

FoldStart(n, f) == (f - 1) * (n \div cv) + (IF f - 1 < n % cv THEN f - 1 ELSE n % cv)

\* the validation rows of fold f (1..cv) of the partition X
FoldTest(X, f) ==
    {X[j] : j \in (FoldStart(Len(X), f) + 1)..(FoldStart(Len(X), f) + FoldSize(Len(X), f))}

\* the rows fold f is fitted on
FoldTrain(X, f) == Range(X) \ FoldTest(X, f)

(***************************************************************************)
(* The decision tree, as the opaque service it is: a fitted estimator is   *)
(* its parameters and the rows it was fitted on, and whether it predicts   *)
(* the label of a row is fixed by the world.                               *)
(***************************************************************************)
Fit(params, rows) == [params |-> params, rows |-> rows]

Correct(e, est, row) ==
    ((est.params.max_depth * row + est.params.min_samples_leaf * (row + e)
        + est.params.min_samples_split * (e + 1) + row * row
        + Cardinality(est.rows) * est.params.max_depth) % 5) \notin {0, 1}

\* an accuracy taken over the rows of the whole dataset
accuracy_score_all_rows(e, est, rows) ==
    [correct |-> Cardinality({r \in rows : Correct(e, est, r)}),
     total   |-> NRows]

\* accuracy_score(y[rows], est.predict(X[rows])) as correct / total
accuracy_score(e, est, rows) ==
    [correct |-> Cardinality({r \in rows : Correct(e, est, r)}),
     total   |-> Cardinality(rows)]

(***************************************************************************)
(* BaseSearchCV.fit: the (candidate, fold) tasks in candidate-major order, *)
(* the mean of the fold scores of a candidate, the choice of the best.     *)
(***************************************************************************)
NTasks(cands) == Len(cands) * cv

TaskCand(t) == ((t - 1) \div cv) + 1

TaskFold(t) == ((t - 1) % cv) + 1

\* _fit_and_score of task t: fit on the fold's training rows, score on its validation rows
FitAndScore(e, cands, X, t) ==
    accuracy_score(e, Fit(cands[TaskCand(t)], FoldTrain(X, TaskFold(t))),
                   FoldTest(X, TaskFold(t)))

RECURSIVE SumTo(_, _)
SumTo(F, k) == IF k = 0 THEN 0 ELSE F[k] + SumTo(F, k - 1)

RECURSIVE ProdTo(_, _)
ProdTo(F, k) == IF k = 0 THEN 1 ELSE F[k] * ProdTo(F, k - 1)

\* mean_test_score of candidate i: the mean of its cv fold accuracies, as the
\* numerator over the common denominator cv * (product of the fold sizes)
MeanTestScore(out, i) ==
    LET score == [f \in 1..cv |-> out[(i - 1) * cv + f]]
        denom == ProdTo([f \in 1..cv |-> score[f].total], cv)
    IN  SumTo([f \in 1..cv |-> score[f].correct * (denom \div score[f].total)], cv)

\* results kept in the order the tasks complete
ResultSlotCompletionOrder(t, k) == k

\* where joblib puts the result of task t when it is the k-th to complete:
\* Parallel returns the results in the order of the tasks
ResultSlot(t, k) == t

\* rank_test_score: rankdata(-mean_test_score, method="min")
RankTestScore(means) ==
    [i \in 1..Len(means) |->
        1 + Cardinality({j \in 1..Len(means) : means[j] > means[i]})]

\* an argmin that lets a later position win a tie
RECURSIVE ArgMinScanLast(_, _, _)
ArgMinScanLast(r, k, best) ==
    IF k > Len(r) THEN best
    ELSE ArgMinScanLast(r, k + 1, IF r[k] <= r[best] THEN k ELSE best)

\* numpy argmin over positions k..Len(r), given the best position so far:
\* a later position wins only with a strictly smaller value
RECURSIVE ArgMinScan(_, _, _)
ArgMinScan(r, k, best) ==
    IF k > Len(r) THEN best
    ELSE IF r[k] < r[best] THEN ArgMinScan(r, k + 1, k)
    ELSE ArgMinScan(r, k + 1, best)

\* the best taken at the wrong end of the ranking
BestIndexWorst(means) ==
    CHOOSE i \in 1..Len(means) : \A j \in 1..Len(means) : means[i] <= means[j]

\* best_index_ = results["rank_test_score"].argmin()
BestIndex(means) == ArgMinScan(RankTestScore(means), 2, 1)

Idle == [which |-> "none", cands |-> <<>>, X |-> <<>>, nxt |-> 1, inflight |-> {},
         out |-> <<>>, ndone |-> 0]

Unfitted ==
    [fitted |-> FALSE, candidates |-> <<>>, split_test_score |-> <<>>,
     mean_test_score |-> <<>>, best_index_ |-> 0, best_params_ |-> None, best_estimator_ |-> None]

Pending == [pending |-> TRUE]

\* a sampler without random_state, seeded from the clock
CandidatesUnseeded(which, e) ==
    IF which = "random" THEN ParameterSampler(param_dist, n_iter, e + now)
    ELSE ParameterGrid(param_grid)

\* the candidates of a search: RandomizedSearchCV._run_search, GridSearchCV._run_search
Candidates(which, e) ==
    IF which = "random" THEN ParameterSampler(param_dist, n_iter, e)
    ELSE ParameterGrid(param_grid)

\* the data a search is fitted on: random_search.fit(X_train, y_train)
SearchFitData == X_train

\* the baseline fitted on the whole dataset
BaselineFitAll == X_train \o X_test

\* the data the baseline is fitted on: default_tree.fit(X_train, y_train)
BaselineFitData == X_train

\* the data every model is scored on: predict(X_test), accuracy_score(y_test, ...)
EvalData == X_test

(***************************************************************************)
(* History of the run, kept for the properties: the rows every fit and     *)
(* prediction read, the orchestration steps begun and ended (and begun     *)
(* again), the clock readings of each timer, the fits each model cost,     *)
(* and, in a rerun, the partitions of the first execution.                 *)
(***************************************************************************)
Read(op, who, rows, fitted) == [op |-> op, who |-> who, rows |-> rows, fitted |-> fitted]

Begin(h, step) ==
    [h EXCEPT !.begun = @ \cup {step},
              !.retried = @ \cup (IF step \in h.begun THEN {step} ELSE {})]

End(h, step) == [h EXCEPT !.ended = @ \cup {step}]

Step(h, step) == End(Begin(h, step), step)

Log(h, r) == [h EXCEPT !.reads = @ \cup {r}]

\* task t completes while an earlier task is still running
Overtake(h, which, t, inflight) ==
    IF \E u \in inflight : u < t THEN [h EXCEPT !.reordered = @ \cup {which}] ELSE h

\* the timer of a search reads the clock: at its start, at its stop
Started(h, which, t) == [h EXCEPT !.timer[which].start = t]

Stopped(h, which, t) == [h EXCEPT !.timer[which].stop = t]

\* n more fits of an estimator were made for the model of who
Count(h, who, n) == [h EXCEPT !.fits[who] = @ + n]

NoHistory ==
    [reads |-> {}, begun |-> {}, ended |-> {}, retried |-> {}, reordered |-> {},
     failedAt |-> "none",
     timer |-> [w \in {"random", "grid"} |-> [start |-> NoTime, stop |-> NoTime]],
     fits |-> [w \in {"default", "random", "grid"} |-> 0],
     firstSplit |-> None]

Init ==
    /\ pc = "load"
    /\ env \in 1..NumEnvs
    /\ run = 1
    /\ now = 0
    /\ X_train = <<>>
    /\ X_test = <<>>
    /\ default_tree = None
    /\ default_accuracy = None
    /\ random_search = Unfitted
    /\ random_time = NoTime
    /\ random_accuracy = None
    /\ grid_search = Unfitted
    /\ grid_time = NoTime
    /\ grid_accuracy = None
    /\ start_time = NoTime
    /\ job = Idle
    /\ results = <<>>
    /\ stdout = <<>>
    /\ figure = None
    /\ hist = NoHistory
    /\ previous = None

\* X_train, X_test, y_train, y_test = train_test_split(X, y, test_size=0.2, random_state=42)
Load ==
    /\ pc = "load"
    /\ X_train' = train_test_split(env).train
    /\ X_test' = train_test_split(env).test
    /\ hist' = Step(hist, "load")
    /\ pc' = "baseline_fit"
    /\ UNCHANGED <<env, run, now, default_tree, default_accuracy, random_search,
                   random_time, random_accuracy, grid_search, grid_time, grid_accuracy,
                   start_time, job, results, stdout, figure, previous>>

\* default_tree = DecisionTreeClassifier(random_state=42); default_tree.fit(X_train, y_train)
BaselineFit ==
    /\ pc = "baseline_fit"
    /\ default_tree' = Fit(DefaultParams, Range(BaselineFitData))
    /\ hist' = Count(Log(Step(hist, "baseline_fit"),
                         Read("fit", "default", Range(BaselineFitData), TRUE)),
                     "default", 1)
    /\ pc' = "baseline_eval"
    /\ UNCHANGED <<env, run, now, X_train, X_test, default_accuracy, random_search,
                   random_time, random_accuracy, grid_search, grid_time, grid_accuracy,
                   start_time, job, results, stdout, figure, previous>>

\* y_pred_default = default_tree.predict(X_test); default_accuracy = accuracy_score(...); print
BaselineEval ==
    /\ pc = "baseline_eval"
    /\ default_accuracy' = accuracy_score(env, default_tree, Range(EvalData))
    /\ stdout' = Append(stdout, [line |-> "Default Decision Tree Accuracy",
                                 value |-> default_accuracy'])
    /\ hist' = Log(Step(hist, "baseline_eval"),
                   Read("predict", "default", Range(EvalData), default_tree # None))
    /\ pc' = "random_start"
    /\ UNCHANGED <<env, run, now, X_train, X_test, default_tree, random_search,
                   random_time, random_accuracy, grid_search, grid_time, grid_accuracy,
                   start_time, job, results, figure, previous>>

\* the cell of a search run before the baseline cell has finished
StartTimerAnyOrder(which) ==
    /\ pc \in {which \o "_start", "baseline_eval"}
    /\ start_time' = now
    /\ hist' = Begin(hist, which \o "_search")
    /\ pc' = which \o "_fit"
    /\ UNCHANGED <<env, run, now, X_train, X_test, default_tree, default_accuracy,
                   random_search, random_time, random_accuracy, grid_search, grid_time,
                   grid_accuracy, job, results, stdout, figure, previous>>

\* start_time = time.time()
StartTimer(which) ==
    /\ pc = which \o "_start"
    /\ start_time' = now
    /\ hist' = Started(Begin(hist, which \o "_search"), which, now)
    /\ pc' = which \o "_fit"
    /\ UNCHANGED <<env, run, now, X_train, X_test, default_tree, default_accuracy,
                   random_search, random_time, random_accuracy, grid_search, grid_time,
                   grid_accuracy, job, results, stdout, figure, previous>>

\* search.fit(X_train, y_train), entry: the candidates are listed and the
\* (candidate, fold) tasks handed to joblib
FitBegin(which) ==
    /\ pc = which \o "_fit"
    /\ job.which = "none"
    /\ job' = [which |-> which, cands |-> Candidates(which, env), X |-> SearchFitData,
               nxt |-> 1, inflight |-> {},
               out |-> [t \in 1..NTasks(Candidates(which, env)) |-> Pending],
               ndone |-> 0]
    /\ UNCHANGED <<pc, env, run, now, X_train, X_test, default_tree, default_accuracy,
                   random_search, random_time, random_accuracy, grid_search, grid_time,
                   grid_accuracy, start_time, results, stdout, figure, hist, previous>>

\* joblib hands the next task to a free worker
Dispatch ==
    /\ job.which # "none"
    /\ job.nxt <= NTasks(job.cands)
    /\ Cardinality(job.inflight) < NJobs
    /\ \A t \in job.inflight : job.nxt - t <= MaxLag
    /\ job' = [job EXCEPT !.nxt = @ + 1, !.inflight = @ \cup {job.nxt}]
    /\ UNCHANGED <<pc, env, run, now, X_train, X_test, default_tree, default_accuracy,
                   random_search, random_time, random_accuracy, grid_search, grid_time,
                   grid_accuracy, start_time, results, stdout, figure, hist, previous>>

\* a worker finishes _fit_and_score of its task, in any order among the running ones
Complete ==
    /\ job.which # "none"
    /\ \E t \in job.inflight :
        /\ job' = [job EXCEPT
                     !.inflight = @ \ {t},
                     !.ndone = @ + 1,
                     !.out[ResultSlot(t, job.ndone + 1)] =
                         FitAndScore(env, job.cands, job.X, t)]
        /\ hist' = Log(Log(Overtake(hist, job.which, t, job.inflight),
                     Read("cv_fit", job.which, FoldTrain(job.X, TaskFold(t)), TRUE)),
                     Read("cv_score", job.which, FoldTest(job.X, TaskFold(t)), TRUE))
    /\ UNCHANGED <<pc, env, run, now, X_train, X_test, default_tree, default_accuracy,
                   random_search, random_time, random_accuracy, grid_search, grid_time,
                   grid_accuracy, start_time, results, stdout, figure, previous>>

\* a search that keeps as best_estimator_ the model of the first fold of the
\* best candidate instead of refitting it
FittedFoldModel(cands, out, X) ==
    LET means == [i \in 1..Len(cands) |-> MeanTestScore(out, i)]
        best  == BestIndex(means)
    IN  [fitted |-> TRUE, candidates |-> cands, split_test_score |-> out,
         mean_test_score |-> means,
         best_index_ |-> best, best_params_ |-> cands[best],
         best_estimator_ |-> Fit(cands[best], FoldTrain(X, 1))]

\* the object a finished search leaves: cv_results_, best_index_, best_params_
\* and best_estimator_, refitted on all the rows the search was given
Fitted(cands, out, X) ==
    LET cv_results(means, best) ==
            [fitted |-> TRUE, candidates |-> cands, split_test_score |-> out,
             mean_test_score |-> means,
             best_index_ |-> best, best_params_ |-> cands[best],
             best_estimator_ |-> Fit(cands[best], Range(X))]
    IN  \* the means are computed once, the best index is taken from them
        CHOOSE s \in {cv_results(means, BestIndex(means)) :
                         means \in {[i \in 1..Len(cands) |-> MeanTestScore(out, i)]}} : TRUE

\* a search whose fit waits for one more task than it has handed out
FitEndWaitsForever(which) ==
    /\ pc = which \o "_fit"
    /\ job.which = which
    /\ job.ndone = NTasks(job.cands) + 1
    /\ IF which = "random"
         THEN /\ random_search' = Fitted(job.cands, job.out, job.X)
              /\ UNCHANGED grid_search
         ELSE /\ grid_search' = Fitted(job.cands, job.out, job.X)
              /\ UNCHANGED random_search
    /\ hist' = Count(Log(hist, Read("refit", which, Range(job.X), TRUE)),
                     which, job.ndone + 1)
    /\ job' = Idle
    /\ pc' = which \o "_stop"
    /\ UNCHANGED <<env, run, now, X_train, X_test, default_tree, default_accuracy,
                   random_time, random_accuracy, grid_time, grid_accuracy,
                   start_time, results, stdout, figure, previous>>

\* search.fit, exit: every task has completed; the results are formatted, the
\* best candidate chosen and refitted
FitEnd(which) ==
    /\ pc = which \o "_fit"
    /\ job.which = which
    /\ job.ndone = NTasks(job.cands)
    /\ IF which = "random"
         THEN /\ random_search' = Fitted(job.cands, job.out, job.X)
              /\ UNCHANGED grid_search
         ELSE /\ grid_search' = Fitted(job.cands, job.out, job.X)
              /\ UNCHANGED random_search
    /\ hist' = Count(Log(hist, Read("refit", which, Range(job.X), TRUE)),
                     which, job.ndone + 1)
    /\ job' = Idle
    /\ pc' = which \o "_stop"
    /\ UNCHANGED <<env, run, now, X_train, X_test, default_tree, default_accuracy,
                   random_time, random_accuracy, grid_time, grid_accuracy,
                   start_time, results, stdout, figure, previous>>

\* random_time = time.time() - start_time: the clock has advanced by the
\* duration of the fit
StopTimer(which) ==
    /\ pc = which \o "_stop"
    /\ \E d \in 0..MaxDur :
        /\ now' = now + d
        /\ IF which = "random"
             THEN random_time' = now' - start_time /\ UNCHANGED grid_time
             ELSE grid_time' = now' - start_time /\ UNCHANGED random_time
    /\ hist' = Stopped(End(hist, which \o "_search"), which, now')
    /\ pc' = which \o "_eval"
    /\ UNCHANGED <<env, run, X_train, X_test, default_tree, default_accuracy,
                   random_search, random_accuracy, grid_search, grid_accuracy,
                   start_time, job, results, stdout, figure, previous>>

\* the test predictions of a search made before its timer has been read
EvaluateInsideTimer(which) ==
    /\ pc \in {which \o "_eval", which \o "_stop"}
    /\ LET search == IF which = "random" THEN random_search ELSE grid_search
           acc    == accuracy_score(env, search.best_estimator_, Range(EvalData))
           time   == IF which = "random" THEN random_time ELSE grid_time
       IN  /\ IF which = "random"
                THEN random_accuracy' = acc /\ UNCHANGED grid_accuracy
                ELSE grid_accuracy' = acc /\ UNCHANGED random_accuracy
           /\ stdout' = stdout \o
                  << [line |-> which \o " Best Parameters", value |-> search.best_params_],
                     [line |-> which \o " Accuracy", value |-> acc],
                     [line |-> which \o " Training Time", value |-> time] >>
           /\ hist' = Log(Step(hist, which \o "_eval"),
                          Read("predict", which, Range(EvalData), search.fitted))
    /\ pc' = IF which = "random" THEN "grid_start" ELSE "table"
    /\ UNCHANGED <<env, run, now, X_train, X_test, default_tree, default_accuracy,
                   random_search, random_time, grid_search, grid_time,
                   start_time, job, results, figure, previous>>

\* y_pred = search.best_estimator_.predict(X_test); accuracy = accuracy_score(...);
\* the three prints
Evaluate(which) ==
    /\ pc = which \o "_eval"
    /\ LET search == IF which = "random" THEN random_search ELSE grid_search
           acc    == accuracy_score(env, search.best_estimator_, Range(EvalData))
           time   == IF which = "random" THEN random_time ELSE grid_time
       IN  /\ IF which = "random"
                THEN random_accuracy' = acc /\ UNCHANGED grid_accuracy
                ELSE grid_accuracy' = acc /\ UNCHANGED random_accuracy
           /\ stdout' = stdout \o
                  << [line |-> which \o " Best Parameters", value |-> search.best_params_],
                     [line |-> which \o " Accuracy", value |-> acc],
                     [line |-> which \o " Training Time", value |-> time] >>
           /\ hist' = Log(Step(hist, which \o "_eval"),
                          Read("predict", which, Range(EvalData), search.fitted))
    /\ pc' = IF which = "random" THEN "grid_start" ELSE "table"
    /\ UNCHANGED <<env, run, now, X_train, X_test, default_tree, default_accuracy,
                   random_search, random_time, grid_search, grid_time,
                   start_time, job, results, figure, previous>>

\* pd.DataFrame(columns): row i takes the i-th entry of every column
DataFrame(cols) ==
    [i \in 1..Len(cols.Method) |->
        [Method |-> cols.Method[i], Accuracy |-> cols.Accuracy[i], Time |-> cols.Time[i]]]

\* the columns with the accuracies of the two searches exchanged
ResultColumnsSwapped ==
    [Method   |-> <<"Default", "Random Search", "Grid Search">>,
     Accuracy |-> <<default_accuracy, grid_accuracy, random_accuracy>>,
     Time     |-> <<0, random_time, grid_time>>]

\* the columns of the comparison table
ResultColumns ==
    [Method   |-> <<"Default", "Random Search", "Grid Search">>,
     Accuracy |-> <<default_accuracy, random_accuracy, grid_accuracy>>,
     Time     |-> <<0, random_time, grid_time>>]

\* the table cell run before grid search has been scored
TableEarly ==
    /\ pc \in {"table", "grid_start"}
    /\ results' = DataFrame(ResultColumns)
    /\ stdout' = Append(stdout, [line |-> "results", value |-> results'])
    /\ hist' = Step(hist, "table")
    /\ pc' = "plot"
    /\ UNCHANGED <<env, run, now, X_train, X_test, default_tree, default_accuracy,
                   random_search, random_time, random_accuracy, grid_search, grid_time,
                   grid_accuracy, start_time, job, figure, previous>>

\* results = pd.DataFrame({...}); print(results)
Table ==
    /\ pc = "table"
    /\ results' = DataFrame(ResultColumns)
    /\ stdout' = Append(stdout, [line |-> "results", value |-> results'])
    /\ hist' = Step(hist, "table")
    /\ pc' = "plot"
    /\ UNCHANGED <<env, run, now, X_train, X_test, default_tree, default_accuracy,
                   random_search, random_time, random_accuracy, grid_search, grid_time,
                   grid_accuracy, start_time, job, figure, previous>>

\* a plot cell that reorders the table in place before drawing it
PlotSorted ==
    /\ pc = "plot"
    /\ results' = [i \in 1..Len(results) |-> results[Len(results) + 1 - i]]
    /\ figure' = [x      |-> [i \in 1..Len(results) |-> results'[i].Method],
                  height |-> [i \in 1..Len(results) |-> results'[i].Accuracy],
                  title  |-> "Comparison of Hyperparameter Tuning Methods"]
    /\ hist' = Step(hist, "plot")
    /\ pc' = "done"
    /\ UNCHANGED <<env, run, now, X_train, X_test, default_tree, default_accuracy,
                   random_search, random_time, random_accuracy, grid_search, grid_time,
                   grid_accuracy, start_time, job, stdout, previous>>

\* plt.figure(...); plt.bar(results['Method'], results['Accuracy'], ...); ...; plt.show()
Plot ==
    /\ pc = "plot"
    /\ figure' = [x      |-> [i \in 1..Len(results) |-> results[i].Method],
                  height |-> [i \in 1..Len(results) |-> results[i].Accuracy],
                  title  |-> "Comparison of Hyperparameter Tuning Methods"]
    /\ hist' = Step(hist, "plot")
    /\ pc' = "done"
    /\ UNCHANGED <<env, run, now, X_train, X_test, default_tree, default_accuracy,
                   random_search, random_time, random_accuracy, grid_search, grid_time,
                   grid_accuracy, start_time, job, results, stdout, previous>>

\* the statement being executed raises (the dataset cannot be loaded, a fit
\* fails, the rendering backend is missing): nothing catches it, the run ends
Raise ==
    /\ pc \notin {"done", "aborted"}
    /\ pc' = "aborted"
    /\ job' = Idle
    /\ hist' = [hist EXCEPT !.failedAt = pc]
    /\ UNCHANGED <<env, run, now, X_train, X_test, default_tree, default_accuracy,
                   random_search, random_time, random_accuracy, grid_search, grid_time,
                   grid_accuracy, start_time, results, stdout, figure, previous>>

\* the whole notebook is executed again, from a fresh kernel, on the same data
\* and with the same seeds; the table of the first execution is kept aside
Rerun ==
    /\ pc = "done"
    /\ run = 1
    /\ run' = 2
    /\ previous' = results
    /\ pc' = "load"
    /\ X_train' = <<>>
    /\ X_test' = <<>>
    /\ default_tree' = None
    /\ default_accuracy' = None
    /\ random_search' = Unfitted
    /\ random_time' = NoTime
    /\ random_accuracy' = None
    /\ grid_search' = Unfitted
    /\ grid_time' = NoTime
    /\ grid_accuracy' = None
    /\ start_time' = NoTime
    /\ job' = Idle
    /\ results' = <<>>
    /\ stdout' = <<>>
    /\ figure' = None
    /\ hist' = [NoHistory EXCEPT !.firstSplit = [train |-> X_train, test |-> X_test]]
    /\ UNCHANGED <<env, now>>

Next ==
    \/ Load
    \/ BaselineFit
    \/ BaselineEval
    \/ StartTimer("random")
    \/ FitBegin("random")
    \/ FitEnd("random")
    \/ StopTimer("random")
    \/ Evaluate("random")
    \/ StartTimer("grid")
    \/ FitBegin("grid")
    \/ FitEnd("grid")
    \/ StopTimer("grid")
    \/ Evaluate("grid")
    \/ Dispatch
    \/ Complete
    \/ Table
    \/ Plot
    \/ Raise

Spec == Init /\ [][Next]_vars

\* the statements of the notebook and the workers of joblib, failures apart
Proceed ==
    \/ Load
    \/ BaselineFit
    \/ BaselineEval
    \/ \E which \in {"random", "grid"} :
          \/ StartTimer(which)
          \/ FitBegin(which)
          \/ FitEnd(which)
          \/ StopTimer(which)
          \/ Evaluate(which)
    \/ Dispatch
    \/ Complete
    \/ Table
    \/ Plot

\* the interpreter runs the statement it is at and joblib's workers run the
\* tasks they were given: a step that can be taken is eventually taken, unless
\* the run fails first. No failure is ever required to happen. Every such step
\* changes the position of the run or the state of the running search.
FairSpec == Init /\ [][Next]_vars /\ WF_<<pc, job>>(Proceed)

NextRerun ==
    \/ Next
    \/ Rerun

SpecRerun == Init /\ [][NextRerun]_vars

(***************************************************************************)
(* Properties.                                                             *)
(***************************************************************************)
\* the partitions as the split yields them, and the searches by name
TrainPartition == train_test_split(env).train

TestRows == Range(train_test_split(env).test)

SearchOf(which) == IF which = "random" THEN random_search ELSE grid_search

\* the mean cross-validation accuracy of one configuration scored on its own,
\* fold after fold, over the common denominator cv * (product of the fold sizes)
BruteForceMean(params) ==
    LET acc == [f \in 1..cv |->
                   accuracy_score(env, Fit(params, FoldTrain(TrainPartition, f)),
                                  FoldTest(TrainPartition, f))]
        denom == ProdTo([f \in 1..cv |-> FoldSize(NTrain, f)], cv)
    IN  SumTo([f \in 1..cv |-> acc[f].correct * (denom \div FoldSize(NTrain, f))], cv)

Injective(seq) == \A i, j \in 1..Len(seq) : seq[i] = seq[j] => i = j

\* every (candidate, fold) task of a fitted search has a score
AllScored(search) ==
    /\ Len(search.split_test_score) = Len(search.candidates) * cv
    /\ \A t \in 1..Len(search.split_test_score) : search.split_test_score[t] # Pending

\* the Cartesian product of the declared grid
GridProduct ==
    {[max_depth |-> d, min_samples_split |-> s, min_samples_leaf |-> l] :
        d \in {3, 5, 10, 15}, s \in {2, 5, 10}, l \in {1, 5, 10}}

\* C1: once grid search is fitted, the configurations it evaluated are exactly
\* the Cartesian product of the declared grid, each listed once and scored on
\* every fold, 4*3*3 = 36 of them.
C1_GridExhaustive ==
    grid_search.fitted =>
        /\ Len(grid_search.candidates) = 4 * 3 * 3
        /\ Range(grid_search.candidates) = GridProduct
        /\ Injective(grid_search.candidates)
        /\ AllScored(grid_search)

C1_Witness ==
    /\ grid_search.fitted
    /\ pc = "grid_stop"
    /\ Cardinality(Range(grid_search.candidates)) = 36

\* a search has just returned from fit, or the run has ended with it fitted
Returned(which) ==
    /\ SearchOf(which).fitted
    /\ pc \in {which \o "_stop", "done"}

\* C2: when grid search returns (and at the end of the run) its configuration
\* has a mean cross-validation accuracy at least that of every combination of
\* the grid scored on its own.
C2_GridFindsBest ==
    Returned("grid") =>
        /\ grid_search.best_params_ \in GridProduct
        /\ \A c \in GridProduct :
              BruteForceMean(grid_search.best_params_) >= BruteForceMean(c)

C2_Witness ==
    /\ Returned("grid")
    /\ \E c \in GridProduct :
          BruteForceMean(c) < BruteForceMean(grid_search.best_params_)

\* the declared ranges of the randomized space
InRange(c) ==
    /\ c.max_depth \in 1..19
    /\ c.min_samples_split \in 2..19
    /\ c.min_samples_leaf \in 1..19

\* C3: once randomized search is fitted, exactly n_iter = 50 configurations
\* were sampled, no two of them equal, each inside the declared ranges, each
\* scored on every fold, and the returned configuration is one of them.
C3_RandomSamplesBudget ==
    random_search.fitted =>
        /\ Len(random_search.candidates) = 50
        /\ Injective(random_search.candidates)
        /\ \A i \in 1..Len(random_search.candidates) :
              InRange(random_search.candidates[i])
        /\ AllScored(random_search)
        /\ random_search.best_params_ \in Range(random_search.candidates)

C3_Witness ==
    /\ random_search.fitted
    /\ pc = "random_stop"
    /\ Cardinality(Range(random_search.candidates)) = n_iter

\* i is the first position of the evaluation order whose mean is the largest
FirstBest(means, i) ==
    /\ i \in 1..Len(means)
    /\ \A j \in 1..Len(means) : means[j] <= means[i]
    /\ \A j \in 1..(i - 1) : means[j] < means[i]

\* the means of the candidates of a search, each scored on its own
BruteForceMeans(search) ==
    [j \in 1..Len(search.candidates) |-> BruteForceMean(search.candidates[j])]

\* C4: when either search returns (and at the end of the run) its configuration
\* is the first one of the evaluation order whose mean cross-validation
\* accuracy is the maximum: none evaluated has a higher mean, and none before
\* it has an equal one.
C4_FirstBestWins ==
    \A which \in {"random", "grid"} :
        Returned(which) =>
            /\ FirstBest(BruteForceMeans(SearchOf(which)), SearchOf(which).best_index_)
            /\ SearchOf(which).best_params_ =
                   SearchOf(which).candidates[SearchOf(which).best_index_]
            /\ SearchOf(which).best_estimator_.params = SearchOf(which).best_params_

\* the run has ended and each search has a later candidate tied with its best
C4_Witness ==
    \A which \in {"random", "grid"} :
        /\ Returned(which)
        /\ \E j \in (SearchOf(which).best_index_ + 1)..Len(SearchOf(which).candidates) :
              BruteForceMean(SearchOf(which).candidates[j])
                  = BruteForceMean(SearchOf(which).best_params_)

FitOps == {"fit", "cv_fit", "cv_score", "refit"}

\* C5: every fit (baseline, cross-validation fold, refit) and every fold
\* scoring reads rows of the training partition only; a row of the test
\* partition is read only by a prediction of an estimator that is fitted.
C5_TestNeverFitted ==
    \A r \in hist.reads :
        /\ r.op \in FitOps => r.rows \cap TestRows = {} /\ r.rows \subseteq Range(TrainPartition)
        /\ r.rows \cap TestRows # {} => r.op = "predict" /\ r.fitted

C5_Witness ==
    /\ pc = "done"
    /\ \A who \in {"default", "random", "grid"} :
          \E r \in hist.reads : r.op = "predict" /\ r.who = who /\ r.rows = TestRows
    /\ \A who \in {"random", "grid"} :
          /\ \E r \in hist.reads : r.op = "refit" /\ r.who = who
          /\ \E r \in hist.reads : r.op = "cv_fit" /\ r.who = who
    /\ \E r \in hist.reads : r.op = "fit" /\ r.who = "default"

\* C6 as stated: the table of a rerun equals the table of the first run, row
\* by row, in Method, Accuracy and Training Time (s).
C6_IdenticalTable ==
    (run = 2 /\ results # <<>>) => results = previous

\* C6, amended: the table of a rerun has the same rows as the table of the
\* first run with equal Method and Accuracy; the Training Time (s) of the two
\* searches is the wall clock of each run and is not compared.
C6_SameMethodsAndAccuracies ==
    (run = 2 /\ results # <<>>) =>
        /\ Len(results) = Len(previous)
        /\ \A i \in 1..Len(results) :
              /\ results[i].Method = previous[i].Method
              /\ results[i].Accuracy = previous[i].Accuracy
        /\ results[1].Time = previous[1].Time

\* a rerun has built its table and a training time differs from the first run's
C6_Witness ==
    /\ run = 2
    /\ pc = "done"
    /\ Len(results) = 3
    /\ \E i \in 1..3 : results[i].Time # previous[i].Time

\* the task results of a search when its tasks are evaluated one after another
SequentialOut(cands) ==
    [t \in 1..NTasks(cands) |-> FitAndScore(env, cands, TrainPartition, t)]

\* when a search returns it holds what a sequential evaluation yields
SequentialResult ==
    \A which \in {"random", "grid"} :
        Returned(which) =>
            SearchOf(which) =
                Fitted(Candidates(which, env), SequentialOut(Candidates(which, env)),
                       TrainPartition)

\* a step of a running search changes the result of a task only when that
\* task completes, and to the result of its sequential evaluation
SequentialSlot ==
    (job.which # "none" /\ job'.which # "none") =>
        \A t \in 1..Len(job.out) :
            job'.out[t] # job.out[t] =>
                /\ t \in job.inflight
                /\ t \notin job'.inflight
                /\ job'.out[t] = FitAndScore(env, job.cands, TrainPartition, t)

\* C7: whatever the order in which the (configuration, fold) tasks complete,
\* every task result a running search records is the one of its own task, and
\* the search returns the fold scores, the mean score of every configuration
\* and the selected configuration of a sequential evaluation.
C7_ParallelSameAsSequential == [](SequentialResult) /\ [][SequentialSlot]_vars

\* both searches are fitted and in each a task completed before an earlier one
C7_Witness ==
    /\ Returned("random")
    /\ Returned("grid")
    /\ hist.reordered = {"random", "grid"}

\* the orchestration steps of the claim, in its order, over the statements
CoarseParts(step) ==
    CASE step = "baseline fit"  -> {"baseline_fit"}
      [] step = "random search" -> {"random_search"}
      [] step = "grid search"   -> {"grid_search"}
      [] step = "evaluation"    -> {"baseline_eval", "random_eval", "grid_eval", "table"}
      [] step = "plotting"      -> {"plot"}

CoarseOrder == <<"baseline fit", "random search", "grid search", "evaluation", "plotting">>

CoarseBegun(step) == CoarseParts(step) \cap hist.begun # {}

CoarseEnded(step) == CoarseParts(step) \subseteq hist.ended

\* C8 as stated: in the order baseline fit, random search, grid search,
\* evaluation, plotting no step has begun before all its predecessors have
\* ended, and at most one step is in progress.
C8_CoarseOrder ==
    /\ \A i \in 1..Len(CoarseOrder) :
          CoarseBegun(CoarseOrder[i]) =>
              \A j \in 1..(i - 1) : CoarseEnded(CoarseOrder[j])
    /\ Cardinality({i \in 1..Len(CoarseOrder) :
          CoarseBegun(CoarseOrder[i]) /\ ~CoarseEnded(CoarseOrder[i])}) <= 1

StatementOrder ==
    <<"load", "baseline_fit", "baseline_eval", "random_search", "random_eval",
      "grid_search", "grid_eval", "table", "plot">>

\* C8, amended: orchestration is strictly sequential in the order load,
\* baseline fit, baseline evaluation, random search, random-search evaluation,
\* grid search, grid-search evaluation, table, plotting: no step has begun
\* before all its predecessors have ended, and at most one is in progress.
C8_StatementOrder ==
    /\ hist.ended \subseteq hist.begun
    /\ hist.begun \subseteq Range(StatementOrder)
    /\ \A i \in 1..Len(StatementOrder) :
          StatementOrder[i] \in hist.begun =>
              \A j \in 1..(i - 1) : StatementOrder[j] \in hist.ended
    /\ Cardinality(hist.begun \ hist.ended) <= 1

\* random search is in progress, with tasks running, after the baseline was scored
C8_Witness ==
    /\ hist.begun \ hist.ended = {"random_search"}
    /\ job.inflight # {}
    /\ "baseline_eval" \in hist.ended

LineMethods(l) ==
    CASE l.line = "Default Decision Tree Accuracy" -> {"Default"}
      [] l.line = "random Accuracy" -> {"Random Search"}
      [] l.line = "grid Accuracy" -> {"Grid Search"}
      [] l.line = "results" -> {l.value[i].Method : i \in 1..Len(l.value)}
      [] OTHER -> {}

\* the methods of which a result has been printed
ReportedMethods == UNION {LineMethods(stdout[k]) : k \in 1..Len(stdout)}

AllMethods == {"Default", "Random Search", "Grid Search"}

BeforeReport ==
    {"load", "baseline_fit", "baseline_eval", "random_start", "random_fit",
     "random_stop", "random_eval", "grid_start", "grid_fit", "grid_stop", "grid_eval"}

\* C9 as stated: a run that has aborted has reported the results of all three
\* methods or of none.
C9_AllOrNothing ==
    pc = "aborted" => ReportedMethods \in {{}, AllMethods}

\* C9, amended: the comparison table is never partial: whenever it is built or
\* printed it has the three rows, each with a computed accuracy, and a run
\* that fails in a step before the table has built and printed no table; the
\* prints after the baseline and after each search may have reported some of
\* the methods by then.
C9_NoPartialTable ==
    /\ \A k \in 1..Len(stdout) :
          stdout[k].line = "results" =>
              /\ {stdout[k].value[i].Method : i \in 1..Len(stdout[k].value)} = AllMethods
              /\ \A i \in 1..Len(stdout[k].value) : stdout[k].value[i].Accuracy # None
              /\ stdout[k].value = results
    /\ results # <<>> => \E k \in 1..Len(stdout) : stdout[k].line = "results"
    /\ (pc = "aborted" /\ hist.failedAt \in BeforeReport) =>
          /\ results = <<>>
          /\ \A k \in 1..Len(stdout) : stdout[k].line # "results"

\* a run has failed in grid search after two methods were reported, with no table
C9_Witness ==
    /\ pc = "aborted"
    /\ hist.failedAt = "grid_fit"
    /\ ReportedMethods = {"Default", "Random Search"}
    /\ results = <<>>

\* C10: the table, once built, has exactly the rows Default, Random Search,
\* Grid Search in this order; each row carries the test accuracy of its own
\* method's model and its own recorded training time, and the training time
\* of Default is 0.
C10_TableRows ==
    results # <<>> =>
        /\ Len(results) = 3
        /\ [i \in 1..3 |-> results[i].Method] = <<"Default", "Random Search", "Grid Search">>
        /\ results[1].Accuracy = accuracy_score(env, default_tree, TestRows)
        /\ results[2].Accuracy = accuracy_score(env, random_search.best_estimator_, TestRows)
        /\ results[3].Accuracy = accuracy_score(env, grid_search.best_estimator_, TestRows)
        /\ results[1].Accuracy = default_accuracy
        /\ results[2].Accuracy = random_accuracy
        /\ results[3].Accuracy = grid_accuracy
        /\ results[1].Time = 0
        /\ results[2].Time = random_time
        /\ results[3].Time = grid_time

\* the table is built and the two searches differ in accuracy and in time
C10_Witness ==
    /\ Len(results) = 3
    /\ pc = "plot"
    /\ results[2].Accuracy # results[3].Accuracy
    /\ results[2].Time # results[3].Time

Reported ==
    {a \in {[accuracy |-> default_accuracy, model |-> default_tree],
            [accuracy |-> random_accuracy, model |-> random_search.best_estimator_],
            [accuracy |-> grid_accuracy, model |-> grid_search.best_estimator_]} :
        a.accuracy # None}

\* the accuracies printed so far
PrintedAccuracies ==
    {stdout[k].value : k \in {j \in 1..Len(stdout) :
        stdout[j].line \in {"Default Decision Tree Accuracy", "random Accuracy",
                            "grid Accuracy"}}}
    \cup UNION {{stdout[k].value[i].Accuracy : i \in 1..Len(stdout[k].value)} :
                   k \in {j \in 1..Len(stdout) : stdout[j].line = "results"}}

\* C13: every accuracy the pipeline reports is the number of test examples
\* its model predicts correctly over the number of test examples, and so lies
\* in [0, 1]; nothing else is printed as an accuracy.
C13_AccuracyIsCorrectOverTotal ==
    /\ \A a \in Reported :
          /\ a.accuracy.total = Cardinality(TestRows)
          /\ a.accuracy.correct =
                 Cardinality({r \in TestRows : Correct(env, a.model, r)})
          /\ a.accuracy.total > 0
          /\ 0 <= a.accuracy.correct
          /\ a.accuracy.correct <= a.accuracy.total
    /\ PrintedAccuracies \subseteq {a.accuracy : a \in Reported}

\* the table is printed and an accuracy lies strictly between 0 and 1
C13_Witness ==
    /\ pc = "done"
    /\ Cardinality(Reported) = 3
    /\ \E a \in Reported : 0 < a.accuracy.correct /\ a.accuracy.correct < a.accuracy.total

\* the table is complete and has been printed
TablePrinted ==
    /\ Len(results) = 3
    /\ results = DataFrame(ResultColumns)
    /\ \E k \in 1..Len(stdout) : stdout[k] = [line |-> "results", value |-> results]

\* whenever the plot is about to start, has run or has failed, the table is
\* complete and printed; a finished plot shows the rows of the table
TableBeforePlot ==
    /\ (pc = "plot" \/ "plot" \in hist.begun \/ hist.failedAt = "plot") => TablePrinted
    /\ figure # None =>
          /\ figure.x = [i \in 1..3 |-> results[i].Method]
          /\ figure.height = [i \in 1..3 |-> results[i].Accuracy]

\* the plotting step, whether it succeeds or fails, changes neither the table
\* nor what was printed nor the values the table was built from
PlotKeepsTable ==
    pc = "plot" =>
        /\ pc' \in {"plot", "done", "aborted"}
        /\ results' = results
        /\ stdout' = stdout
        /\ <<default_accuracy, random_accuracy, grid_accuracy, random_time, grid_time>>' =
               <<default_accuracy, random_accuracy, grid_accuracy, random_time, grid_time>>

\* C14: the table is fully computed and printed before plotting starts, and
\* the plotting step only reads it: after a failed plot as after a successful
\* one the rows of the table have the values they had before.
C14_PlotFailureKeepsTable == [](TableBeforePlot) /\ [][PlotKeepsTable]_vars

\* the plot has failed and the complete table stands, printed
C14_Witness ==
    /\ pc = "aborted"
    /\ hist.failedAt = "plot"
    /\ figure = None
    /\ TablePrinted

\* the constraints DecisionTreeClassifier puts on its integer parameters;
\* max_depth may also be None (0 here), which only the default tree uses
Accepted(params) ==
    /\ params.max_depth >= 1
    /\ params.min_samples_split >= 2
    /\ params.min_samples_leaf >= 1

\* the values of the two search spaces are the documented ones
SearchSpaces ==
    /\ Range(param_dist.max_depth) = 1..19
    /\ Range(param_dist.min_samples_split) = 2..19
    /\ Range(param_dist.min_samples_leaf) = 1..19
    /\ Len(ParameterGrid(param_grid)) = 36
    /\ \A k \in {"max_depth", "min_samples_split", "min_samples_leaf"} :
           \A g \in Range(param_grid[k]) :
               Accepted([DefaultParams EXCEPT !.max_depth = 1, ![k] = g])
    /\ \A k \in {"max_depth", "min_samples_split", "min_samples_leaf"} :
           \A g \in Range(param_dist[k]) :
               Accepted([DefaultParams EXCEPT !.max_depth = 1, ![k] = g])

\* C15: every value of both search spaces is accepted by the tree: max_depth
\* is at least 1, min_samples_split at least 2, min_samples_leaf at least 1,
\* for every value of the sampled ranges 1..19, 2..19, 1..19, for all 36
\* combinations of the grid, and so for every candidate a search hands to a
\* fit and for the parameters of every model it returns.
C15_SearchSpacesAccepted ==
    /\ SearchSpaces
    /\ \A i \in 1..Len(job.cands) : Accepted(job.cands[i])
    /\ \A which \in {"random", "grid"} :
           SearchOf(which).fitted =>
               /\ \A i \in 1..Len(SearchOf(which).candidates) :
                      Accepted(SearchOf(which).candidates[i])
               /\ Accepted(SearchOf(which).best_params_)
               /\ Accepted(SearchOf(which).best_estimator_.params)

\* both searches have fitted all their candidates, the sampled ones reaching
\* outside the grid
C15_Witness ==
    /\ random_search.fitted
    /\ grid_search.fitted
    /\ Len(grid_search.candidates) = 36
    /\ Len(random_search.candidates) = n_iter
    /\ \E i \in 1..n_iter : random_search.candidates[i] \notin Range(grid_search.candidates)

TimeOf(which) == IF which = "random" THEN random_time ELSE grid_time

\* the timer of a search has been started and not yet stopped
Running(which) == hist.timer[which].start >= 0 /\ hist.timer[which].stop < 0

\* the reads of the fits of a search: its cross-validation fits and scores, its refit
SearchReads(which) ==
    {r \in hist.reads : r.who = which /\ r.op \in {"cv_fit", "cv_score", "refit"}}

\* what the two timers have measured, in any state
TimerCovers ==
    /\ \A which \in {"random", "grid"} :
          \* no fit of the search before the timer is started
          /\ hist.timer[which].start < 0 => SearchReads(which) = {} /\ job.which # which
          \* a stopped timer was started, not later than it was stopped, and
          \* the search had returned, refit included
          /\ hist.timer[which].stop >= 0 =>
                /\ hist.timer[which].start >= 0
                /\ hist.timer[which].start <= hist.timer[which].stop
                /\ SearchOf(which).fitted
                /\ hist.fits[which] = NTasks(SearchOf(which).candidates) + 1
                /\ \E r \in SearchReads(which) : r.op = "refit"
          \* the reported time is the reading of the stopped timer
          /\ TimeOf(which) = IF hist.timer[which].stop < 0 THEN NoTime
                              ELSE hist.timer[which].stop - hist.timer[which].start
          \* the test set is predicted only after the timer has stopped
          /\ (\E r \in hist.reads : r.who = which /\ r.op = "predict") =>
                hist.timer[which].stop >= 0
    \* the two intervals do not overlap: grid search is timed after random search
    /\ hist.timer["grid"].start >= 0 =>
          /\ hist.timer["random"].stop >= 0
          /\ hist.timer["random"].stop <= hist.timer["grid"].start
    /\ ~(Running("random") /\ Running("grid"))

\* what a step may do while a timer is running, and when a timer may change
TimerSteps ==
    /\ \A which \in {"random", "grid"} :
          \* a fit of the search is made only while its timer is running
          /\ SearchReads(which)' # SearchReads(which) => Running(which) /\ Running(which)'
          \* while the timer runs, nothing but the fits of this search is done
          /\ Running(which) /\ Running(which)' =>
                /\ \A r \in hist'.reads \ hist.reads : r \in SearchReads(which)'
                /\ hist'.begun = hist.begun
                /\ <<default_tree, default_accuracy, random_accuracy, grid_accuracy,
                     results, stdout, figure>>' =
                       <<default_tree, default_accuracy, random_accuracy, grid_accuracy,
                         results, stdout, figure>>
          \* the timer is stopped by the step that follows the return of the fit
          /\ Running(which) /\ ~Running(which)' =>
                /\ pc = which \o "_stop"
                /\ SearchOf(which).fitted
                /\ hist'.reads = hist.reads
          \* a timer once read is never restarted
          /\ ~Running(which) /\ Running(which)' => hist.timer[which].stop < 0

\* C16: the training time of a search covers its whole fit, cross-validation
\* and refit, and nothing else: the timer is started before the first
\* cross-validation fit, stopped only after the final refit and before the
\* test set is predicted, and the intervals of random search and grid search
\* do not overlap.
C16_TimerCoversSearchAndRefit == [](TimerCovers) /\ [][TimerSteps]_vars

\* both searches have been timed, one after the other, over a fit that took time
C16_Witness ==
    /\ pc = "done"
    /\ hist.timer["random"].stop >= 0
    /\ hist.timer["grid"].stop >= 0
    /\ random_time > 0
    /\ grid_time > 0
    /\ hist.timer["random"].stop <= hist.timer["grid"].start

AccuracyOf(which) == IF which = "random" THEN random_accuracy ELSE grid_accuracy

\* the training rows of the folds of the training partition
FoldModels == {FoldTrain(TrainPartition, k) : k \in 1..cv}

\* C17: a search costs one fit per (configuration, fold) pair plus one refit,
\* 36 * 5 + 1 for grid search and 50 * 5 + 1 for random search, and the model
\* applied to the test set is the refitted one, trained on the whole training
\* partition with the best parameters, not a model of one fold.
C17_FitsAndRefitModel ==
    /\ hist.fits["default"] = IF default_tree = None THEN 0 ELSE 1
    /\ \A which \in {"random", "grid"} :
          /\ ~SearchOf(which).fitted => hist.fits[which] = 0
          /\ SearchOf(which).fitted =>
                /\ hist.fits[which] = Len(SearchOf(which).candidates) * cv + 1
                /\ hist.fits[which] = IF which = "grid" THEN 36 * 5 + 1 ELSE 50 * 5 + 1
                /\ Len(SearchOf(which).split_test_score) = hist.fits[which] - 1
                /\ SearchOf(which).best_estimator_ =
                       Fit(SearchOf(which).best_params_, Range(TrainPartition))
                /\ SearchOf(which).best_estimator_.rows \notin FoldModels
                /\ AccuracyOf(which) # None =>
                       AccuracyOf(which) =
                           accuracy_score(env,
                               Fit(SearchOf(which).candidates[SearchOf(which).best_index_],
                                   Range(TrainPartition)),
                               TestRows)

\* both searches have made all their fits and their refitted models were scored
C17_Witness ==
    /\ hist.fits = [default |-> 1, random |-> 251, grid |-> 181]
    /\ random_accuracy # None
    /\ grid_accuracy # None
    /\ grid_search.best_estimator_.rows = Range(X_train)

\* the positions of a run, in the order of the notebook
Positions ==
    <<"load", "baseline_fit", "baseline_eval",
      "random_start", "random_fit", "random_stop", "random_eval",
      "grid_start", "grid_fit", "grid_stop", "grid_eval", "table", "plot", "done">>

PositionOf(p) == CHOOSE i \in 1..Len(Positions) : Positions[i] = p

\* the steps of the orchestration
OrchestrationSteps ==
    {"load", "baseline_fit", "baseline_eval", "random_search", "random_eval",
     "grid_search", "grid_eval", "table", "plot"}

Ended == pc \in {"done", "aborted"}

\* no step of the orchestration has been started a second time, and none is
\* started out of the known ones
NoRetry ==
    /\ hist.retried = {}
    /\ hist.begun \subseteq OrchestrationSteps
    /\ hist.ended \subseteq hist.begun
    /\ pc = "done" => hist.begun = OrchestrationSteps /\ hist.ended = OrchestrationSteps

\* a run never goes back to an earlier position, never leaves its end, starts
\* at most one step at a time, and a search never runs a task twice
NoStepBack ==
    /\ Ended => pc' = pc
    /\ ~Ended /\ pc' # "aborted" => PositionOf(pc') \in {PositionOf(pc), PositionOf(pc) + 1}
    /\ hist.begun \subseteq hist'.begun
    /\ Cardinality(hist'.begun \ hist.begun) <= 1
    /\ job'.which = job.which /\ job.which # "none" =>
          /\ job'.nxt >= job.nxt
          /\ job'.ndone >= job.ndone
          /\ job'.ndone <= NTasks(job.cands)

\* C18: every run terminates and no step is retried: each step of the
\* orchestration is started at most once in a run, and under fair scheduling
\* (the interpreter and the workers keep running what they can run) the run
\* eventually reaches its end, done or aborted.
C18_TerminatesWithoutRetry == [](NoRetry) /\ [][NoStepBack]_vars /\ <>(Ended)

\* a run has ended having started each of its steps once
C18_Witness ==
    /\ pc = "done"
    /\ hist.begun = OrchestrationSteps
    /\ hist.retried = {}
    /\ hist.fits["random"] + hist.fits["grid"] = 432

====
